---- MODULE Spec2Model ----
(***************************************************************************)
(* The hoverTooltip Svelte action (web/lib: hoverTooltip.ts).  One call     *)
(* hoverTooltip(element, options) is one controller: it keeps the closure   *)
(* variables tooltipComponent, curTooltipText, curTooltipBodyComponent and  *)
(* curTooltipBodyProps, registers mouseOver / mouseLeave on the element and *)
(* returns {update, destroy}.                                               *)
(*                                                                         *)
(* Lengths are kept in half pixels, so that left + width / 2 is exact for   *)
(* odd widths as well: Px(n) is n pixels.                                   *)
(***************************************************************************)
EXTENDS Integers, Sequences, FiniteSets

VARIABLES
  tooltipComponent,         \* element -> handle of the mounted HoverTooltip, or NoInstance
  curTooltipText,           \* element -> text the next mount / $set uses
  curTooltipBodyComponent,  \* element -> body component the next mount uses
  curTooltipBodyProps,      \* element -> body props the next mount uses
  instances,                \* every HoverTooltip constructed so far, by handle
  listeners,                \* element -> registered <<event type, handler>> pairs
  boundingRect,             \* element -> what getBoundingClientRect() returns now
  history,                  \* element -> enter/leave events its handlers have processed
  unheard,                  \* element -> events dispatched while no handler listened
  updateCalls,              \* element -> calls of update()
  destroyCalls,             \* element -> calls of destroy()
  lastOptions               \* element -> options of the latest hoverTooltip() / update() call

progVars == <<tooltipComponent, curTooltipText, curTooltipBodyComponent,
              curTooltipBodyProps, instances, listeners>>
vars == <<tooltipComponent, curTooltipText, curTooltipBodyComponent,
          curTooltipBodyProps, instances, listeners, boundingRect,
          history, unheard, updateCalls, destroyCalls, lastOptions>>

--------------------------------------------------------------------------
(* Bounds *)
MaxEvents == 4     \* enter/leave events processed per controller
MaxUnheard == 1    \* events dispatched per element with no handler listening
MaxUpdates == 2    \* update() calls per controller
MaxDestroys == 2   \* destroy() calls per controller
MaxOpsTwo == 3     \* operations per controller when two controllers run side by side

--------------------------------------------------------------------------
(* Values *)
Undefined == "undefined"
NoInstance == 0

Px(n) == 2 * n

ExampleRect == [left |-> Px(100), top |-> Px(50), width |-> Px(40), height |-> Px(20)]
ZeroRect == [left |-> 0, top |-> 0, width |-> 0, height |-> 0]
OddRect == [left |-> Px(3), top |-> Px(4), width |-> Px(5), height |-> Px(7)]
Rects == {ExampleRect, ZeroRect, OddRect}

\* DOMRect.bottom
Bottom(rect) == rect.top + rect.height

Opt(text, body, props) ==
  [tooltipText |-> text, tooltipBodyComponent |-> body, tooltipBodyProps |-> props]

\* HoverTooltipOptions: every field is optional
HoverTooltipOptions ==
  { Opt("A", Undefined, Undefined),
    Opt("B", Undefined, Undefined),
    Opt(Undefined, "R1", "x1"),
    Opt(Undefined, "R2", "x2"),
    Opt("A", "R1", "x1"),
    Opt("B", "R2", "x1"),
    Opt(Undefined, Undefined, Undefined) }

MouseOverListener == <<"mouseover", "mouseOver">>
MouseLeaveListener == <<"mouseleave", "mouseLeave">>

--------------------------------------------------------------------------
(* The HoverTooltip component, as far as the action uses it *)

\* new HoverTooltip({props, target: document.body})
NewHoverTooltip(e, text, body, props, x, y, rect) ==
  [creator |-> e, alive |-> TRUE, destroyed |-> 0,
   tooltipText |-> text, tooltipBodyComponent |-> body, tooltipBodyProps |-> props,
   x |-> x, y |-> y,
   mountText |-> text, mountRect |-> rect]

\* component.$destroy(): unmounts and drops the component's state
ComponentDestroy(inst) ==
  [creator |-> inst.creator, alive |-> FALSE, destroyed |-> inst.destroyed + 1,
   tooltipText |-> Undefined, tooltipBodyComponent |-> Undefined,
   tooltipBodyProps |-> Undefined, x |-> 0, y |-> 0,
   mountText |-> Undefined, mountRect |-> ZeroRect]

\* variant: $set skips a property whose new value is undefined
ComponentSet_skipUndefined(inst, text) ==
  IF text = Undefined THEN inst ELSE [inst EXCEPT !.tooltipText = text]

\* component.$set({tooltipText})
ComponentSet(inst, text) == [inst EXCEPT !.tooltipText = text]

--------------------------------------------------------------------------
(* The closure functions of hoverTooltip *)

AnchorX(rect) == rect.left + rect.width \div 2

\* variant: anchors at the top edge instead of the bottom edge
AnchorY_top(rect) == rect.top

AnchorY(rect) == Bottom(rect)

\* variant: the early return on an existing component is missing
mouseOver_noGuard(e) ==
  LET rect == boundingRect[e]
  IN /\ instances' = Append(instances,
            NewHoverTooltip(e, curTooltipText[e], curTooltipBodyComponent[e],
                            curTooltipBodyProps[e], AnchorX(rect), AnchorY(rect), rect))
     /\ tooltipComponent' = [tooltipComponent EXCEPT ![e] = Len(instances) + 1]

mouseOver(e) ==
  IF tooltipComponent[e] # NoInstance
  THEN UNCHANGED <<tooltipComponent, instances>>
  ELSE LET rect == boundingRect[e]
       IN /\ instances' = Append(instances,
                 NewHoverTooltip(e, curTooltipText[e], curTooltipBodyComponent[e],
                                 curTooltipBodyProps[e], AnchorX(rect), AnchorY(rect), rect))
          /\ tooltipComponent' = [tooltipComponent EXCEPT ![e] = Len(instances) + 1]

\* variant: $destroy() goes to the component constructed last, mounted or not
mouseLeave_destroyLast(e) ==
  /\ instances' = IF instances # <<>>
                  THEN [instances EXCEPT ![Len(instances)] = ComponentDestroy(@)]
                  ELSE instances
  /\ tooltipComponent' = [tooltipComponent EXCEPT ![e] = NoInstance]

\* variant: the handle is dropped without calling $destroy()
mouseLeave_noDestroy(e) ==
  /\ instances' = instances
  /\ tooltipComponent' = [tooltipComponent EXCEPT ![e] = NoInstance]

\* variant: $destroy() is called but the handle is kept
mouseLeave_keepHandle(e) ==
  /\ instances' = IF tooltipComponent[e] # NoInstance
                  THEN [instances EXCEPT ![tooltipComponent[e]] = ComponentDestroy(@)]
                  ELSE instances
  /\ tooltipComponent' = tooltipComponent

mouseLeave(e) ==
  /\ instances' = IF tooltipComponent[e] # NoInstance
                  THEN [instances EXCEPT ![tooltipComponent[e]] = ComponentDestroy(@)]
                  ELSE instances
  /\ tooltipComponent' = [tooltipComponent EXCEPT ![e] = NoInstance]

\* variant: the current text is one variable shared by all controllers
update_sharedText(e, opt) ==
  /\ curTooltipText' = [f \in DOMAIN curTooltipText |-> opt.tooltipText]
  /\ curTooltipBodyComponent' = [curTooltipBodyComponent EXCEPT ![e] = opt.tooltipBodyComponent]
  /\ curTooltipBodyProps' = [curTooltipBodyProps EXCEPT ![e] = opt.tooltipBodyProps]
  /\ instances' = IF tooltipComponent[e] # NoInstance
                  THEN [instances EXCEPT ![tooltipComponent[e]] = ComponentSet(@, opt.tooltipText)]
                  ELSE instances
  /\ UNCHANGED <<tooltipComponent, listeners>>

\* variant: update() stores and patches the text only; body component and props stay
\* as hoverTooltip() received them
update_textOnly(e, opt) ==
  /\ curTooltipText' = [curTooltipText EXCEPT ![e] = opt.tooltipText]
  /\ instances' = IF tooltipComponent[e] # NoInstance
                  THEN [instances EXCEPT ![tooltipComponent[e]] = ComponentSet(@, opt.tooltipText)]
                  ELSE instances
  /\ UNCHANGED <<curTooltipBodyComponent, curTooltipBodyProps, tooltipComponent, listeners>>

\* variant: update() patches the live component but stores nothing
update_onlySet(e, opt) ==
  /\ instances' = IF tooltipComponent[e] # NoInstance
                  THEN [instances EXCEPT ![tooltipComponent[e]] = ComponentSet(@, opt.tooltipText)]
                  ELSE instances
  /\ UNCHANGED <<curTooltipText, curTooltipBodyComponent, curTooltipBodyProps,
                 tooltipComponent, listeners>>

\* variant: update() stores the options but does not $set the live component
update_noSet(e, opt) ==
  /\ curTooltipText' = [curTooltipText EXCEPT ![e] = opt.tooltipText]
  /\ curTooltipBodyComponent' = [curTooltipBodyComponent EXCEPT ![e] = opt.tooltipBodyComponent]
  /\ curTooltipBodyProps' = [curTooltipBodyProps EXCEPT ![e] = opt.tooltipBodyProps]
  /\ UNCHANGED <<instances, tooltipComponent, listeners>>

\* variant: update() passes all three options to $set
update_setAll(e, opt) ==
  /\ curTooltipText' = [curTooltipText EXCEPT ![e] = opt.tooltipText]
  /\ curTooltipBodyComponent' = [curTooltipBodyComponent EXCEPT ![e] = opt.tooltipBodyComponent]
  /\ curTooltipBodyProps' = [curTooltipBodyProps EXCEPT ![e] = opt.tooltipBodyProps]
  /\ instances' = IF tooltipComponent[e] # NoInstance
                  THEN [instances EXCEPT ![tooltipComponent[e]] =
                          [@ EXCEPT !.tooltipText = opt.tooltipText,
                                    !.tooltipBodyComponent = opt.tooltipBodyComponent,
                                    !.tooltipBodyProps = opt.tooltipBodyProps]]
                  ELSE instances
  /\ UNCHANGED <<tooltipComponent, listeners>>

\* variant: update() renders the tooltip right away when none is mounted
update_mount(e, opt) ==
  /\ curTooltipText' = [curTooltipText EXCEPT ![e] = opt.tooltipText]
  /\ curTooltipBodyComponent' = [curTooltipBodyComponent EXCEPT ![e] = opt.tooltipBodyComponent]
  /\ curTooltipBodyProps' = [curTooltipBodyProps EXCEPT ![e] = opt.tooltipBodyProps]
  /\ IF tooltipComponent[e] # NoInstance
     THEN /\ instances' = [instances EXCEPT ![tooltipComponent[e]] =
                              ComponentSet(@, opt.tooltipText)]
          /\ tooltipComponent' = tooltipComponent
     ELSE LET rect == boundingRect[e]
          IN /\ instances' = Append(instances,
                    NewHoverTooltip(e, opt.tooltipText, opt.tooltipBodyComponent,
                                    opt.tooltipBodyProps, AnchorX(rect), AnchorY(rect), rect))
             /\ tooltipComponent' = [tooltipComponent EXCEPT ![e] = Len(instances) + 1]
  /\ UNCHANGED listeners

update(e, opt) ==
  /\ curTooltipText' = [curTooltipText EXCEPT ![e] = opt.tooltipText]
  /\ curTooltipBodyComponent' = [curTooltipBodyComponent EXCEPT ![e] = opt.tooltipBodyComponent]
  /\ curTooltipBodyProps' = [curTooltipBodyProps EXCEPT ![e] = opt.tooltipBodyProps]
  /\ instances' = IF tooltipComponent[e] # NoInstance
                  THEN [instances EXCEPT ![tooltipComponent[e]] = ComponentSet(@, opt.tooltipText)]
                  ELSE instances
  /\ UNCHANGED <<tooltipComponent, listeners>>

\* variant: destroy() removes the listeners but does not call mouseLeave()
destroy_noLeave(e) ==
  /\ listeners' = [listeners EXCEPT ![e] = (@ \ {MouseOverListener}) \ {MouseLeaveListener}]
  /\ UNCHANGED <<tooltipComponent, instances,
                 curTooltipText, curTooltipBodyComponent, curTooltipBodyProps>>

\* variant: destroy() leaves the mouseover listener registered
destroy_keepMouseOver(e) ==
  /\ mouseLeave(e)
  /\ listeners' = [listeners EXCEPT ![e] = @ \ {MouseLeaveListener}]
  /\ UNCHANGED <<curTooltipText, curTooltipBodyComponent, curTooltipBodyProps>>

destroy(e) ==
  /\ mouseLeave(e)
  /\ listeners' = [listeners EXCEPT ![e] = (@ \ {MouseOverListener}) \ {MouseLeaveListener}]
  /\ UNCHANGED <<curTooltipText, curTooltipBodyComponent, curTooltipBodyProps>>

\* hoverTooltip(element, options) for every element of els: the state it returns in
hoverTooltip(els, opts) ==
  /\ tooltipComponent = [e \in els |-> NoInstance]
  /\ curTooltipText = [e \in els |-> opts[e].tooltipText]
  /\ curTooltipBodyComponent = [e \in els |-> opts[e].tooltipBodyComponent]
  /\ curTooltipBodyProps = [e \in els |-> opts[e].tooltipBodyProps]
  /\ instances = <<>>
  /\ listeners = [e \in els |-> {MouseOverListener, MouseLeaveListener}]

--------------------------------------------------------------------------
(* Operations: the browser dispatching events, the caller using the       *)
(* returned object, the page changing its layout                           *)

Controllers == DOMAIN tooltipComponent

MouseOverEvent(e) ==
  IF MouseOverListener \in listeners[e]
  THEN /\ Len(history[e]) < MaxEvents
       /\ mouseOver(e)
       /\ history' = [history EXCEPT ![e] = Append(@, "enter")]
       /\ UNCHANGED <<curTooltipText, curTooltipBodyComponent, curTooltipBodyProps,
                      listeners, boundingRect, unheard, updateCalls, destroyCalls,
                      lastOptions>>
  ELSE /\ unheard[e] < MaxUnheard
       /\ unheard' = [unheard EXCEPT ![e] = @ + 1]
       /\ UNCHANGED <<progVars, boundingRect, history, updateCalls, destroyCalls,
                      lastOptions>>

MouseLeaveEvent(e) ==
  IF MouseLeaveListener \in listeners[e]
  THEN /\ Len(history[e]) < MaxEvents
       /\ mouseLeave(e)
       /\ history' = [history EXCEPT ![e] = Append(@, "leave")]
       /\ UNCHANGED <<curTooltipText, curTooltipBodyComponent, curTooltipBodyProps,
                      listeners, boundingRect, unheard, updateCalls, destroyCalls,
                      lastOptions>>
  ELSE /\ unheard[e] < MaxUnheard
       /\ unheard' = [unheard EXCEPT ![e] = @ + 1]
       /\ UNCHANGED <<progVars, boundingRect, history, updateCalls, destroyCalls,
                      lastOptions>>

\* a call of update() with one of the given options
UpdateFrom(e, options) ==
  /\ updateCalls[e] < MaxUpdates
  /\ \E opt \in options :
       /\ update(e, opt)
       /\ lastOptions' = [lastOptions EXCEPT ![e] = opt]
  /\ updateCalls' = [updateCalls EXCEPT ![e] = @ + 1]
  /\ UNCHANGED <<boundingRect, history, unheard, destroyCalls>>

Update(e) == UpdateFrom(e, HoverTooltipOptions)

Destroy(e) ==
  /\ destroyCalls[e] < MaxDestroys
  /\ destroy(e)
  /\ destroyCalls' = [destroyCalls EXCEPT ![e] = @ + 1]
  /\ UNCHANGED <<boundingRect, history, unheard, updateCalls, lastOptions>>

Reflow(e) ==
  /\ \E rect \in Rects \ {boundingRect[e]} : boundingRect' = [boundingRect EXCEPT ![e] = rect]
  /\ UNCHANGED <<progVars, history, unheard, updateCalls, destroyCalls, lastOptions>>

Attach(els) ==
  /\ \E opts \in [els -> HoverTooltipOptions] :
       /\ hoverTooltip(els, opts)
       /\ lastOptions = opts
  /\ boundingRect \in [els -> Rects]
  /\ history = [e \in els |-> <<>>]
  /\ unheard = [e \in els |-> 0]
  /\ updateCalls = [e \in els |-> 0]
  /\ destroyCalls = [e \in els |-> 0]

Init == Attach({"e1"})

Next ==
  \E e \in Controllers :
    \/ MouseOverEvent(e)
    \/ MouseLeaveEvent(e)
    \/ Update(e)
    \/ Destroy(e)
    \/ Reflow(e)

Spec == Init /\ [][Next]_vars

\* Two controllers on two elements, every interleaving of their operations
TwoOptions == {Opt("A", "R1", "x1"), Opt("B", "R2", "x1")}

OpsDone(e) == Len(history[e]) + unheard[e] + updateCalls[e] + destroyCalls[e]

InitTwo ==
  /\ Attach({"e1", "e2"})
  /\ \A e \in Controllers :
       Opt(curTooltipText[e], curTooltipBodyComponent[e], curTooltipBodyProps[e]) \in TwoOptions
  /\ boundingRect = [e \in {"e1", "e2"} |-> IF e = "e1" THEN ExampleRect ELSE OddRect]

NextTwo ==
  \E e \in Controllers :
    /\ OpsDone(e) < MaxOpsTwo
    /\ \/ MouseOverEvent(e)
       \/ MouseLeaveEvent(e)
       \/ UpdateFrom(e, TwoOptions)
       \/ Destroy(e)

SpecTwo == InitTwo /\ [][NextTwo]_vars

\* One controller attached with body component R1 and body props x1
InitR1 ==
  /\ Init
  /\ \A e \in Controllers :
       curTooltipBodyComponent[e] = "R1" /\ curTooltipBodyProps[e] = "x1"

SpecR1 == InitR1 /\ [][Next]_vars

--------------------------------------------------------------------------
(* Observations used by the properties *)

\* handles of the instances controller e constructed
CreatedBy(e) == {i \in DOMAIN instances : instances[i].creator = e}
\* ... that are mounted
Live(e) == {i \in CreatedBy(e) : instances[i].alive}
\* ... that were destroyed
Dead(e) == {i \in CreatedBy(e) : ~instances[i].alive}

HasEnter(h) == \E i \in DOMAIN h : h[i] = "enter"
\* h is enter, leave, enter, leave, ...
Alternating(h) == \A i \in DOMAIN h : h[i] = (IF i % 2 = 1 THEN "enter" ELSE "leave")

\* between a processed enter and the matching leave or detach
Hovering(e) ==
  /\ history[e] # <<>>
  /\ history[e][Len(history[e])] = "enter"
  /\ destroyCalls[e] = 0

\* the step processes an enter / a leave event of e, is a call of update / destroy
EnterStep(e) == history'[e] = Append(history[e], "enter")
LeaveStep(e) == history'[e] = Append(history[e], "leave")
UpdateStep(e) == updateCalls'[e] = updateCalls[e] + 1
DestroyStep(e) == destroyCalls'[e] = destroyCalls[e] + 1

--------------------------------------------------------------------------
(* C1: the handle is non-null exactly while the controller is between a    *)
(* processed enter event and the matching leave or detach.                 *)
C1_HandleIffHovering ==
  \A e \in Controllers : (tooltipComponent[e] # NoInstance) <=> Hovering(e)

C1_Witness ==
  \E e \in Controllers :
    /\ history[e] = <<"enter", "leave", "enter">>
    /\ updateCalls[e] > 0
    /\ tooltipComponent[e] # NoInstance

(* C2: at most one instance created by a controller is mounted at a time.  *)
C2_AtMostOneLive ==
  \A e \in Controllers : Cardinality(Live(e)) <= 1

C2_Witness ==
  \E e \in Controllers :
    /\ Cardinality(Live(e)) = 1
    /\ Cardinality(Dead(e)) >= 1
    /\ \E i \in 1..(Len(history[e]) - 1) : history[e][i] = "enter" /\ history[e][i + 1] = "enter"

(* C3: after N enter/leave pairs exactly N instances were created and N    *)
(* destroyed, each once; inside a pair one more is created and it is the   *)
(* only live one.                                                          *)
C3_PairsCreateAndDestroy ==
  \A e \in Controllers :
    Alternating(history[e]) =>
      LET n == Len(history[e]) \div 2
      IN /\ Cardinality(Live(e)) <= 1
         /\ \A i \in CreatedBy(e) : instances[i].destroyed <= 1
         /\ Len(history[e]) % 2 = 0 =>
              /\ Cardinality(CreatedBy(e)) = n
              /\ Cardinality(Dead(e)) = n
              /\ \A i \in CreatedBy(e) : instances[i].destroyed = 1
         /\ Len(history[e]) % 2 = 1 =>
              /\ Cardinality(CreatedBy(e)) = n + 1
              /\ Cardinality(Dead(e)) >= n

C3_Witness ==
  \E e \in Controllers :
    /\ history[e] = <<"enter", "leave", "enter", "leave">>
    /\ Cardinality(CreatedBy(e)) = 2
    /\ Cardinality(Dead(e)) = 2

(* C4: an enter event processed while an instance is live changes neither  *)
(* the handle nor any instance, and constructs none.                       *)
C4_EnterWhileLiveIsNoOp ==
  [][\A e \in Controllers :
       (EnterStep(e) /\ tooltipComponent[e] # NoInstance) =>
          /\ tooltipComponent'[e] = tooltipComponent[e]
          /\ instances' = instances]_vars

C4_Witness ==
  \E e \in Controllers :
    /\ history[e] = <<"enter", "enter">>
    /\ tooltipComponent[e] # NoInstance
    /\ Cardinality(CreatedBy(e)) = 1

(* C5: destroy() unmounts the live instance and removes both listeners;    *)
(* from then on no event or update mounts an instance and the handle stays *)
(* null.                                                                   *)
C5_DetachIsTerminal ==
  [][\A e \in Controllers :
       /\ DestroyStep(e) =>
            /\ tooltipComponent'[e] = NoInstance
            /\ listeners'[e] = {}
            /\ \A i \in DOMAIN instances : instances[i].creator = e => ~instances'[i].alive
       /\ destroyCalls[e] > 0 =>
            /\ tooltipComponent'[e] = NoInstance
            /\ listeners'[e] = {}
            /\ Len(instances') = Len(instances)]_vars

C5_Witness ==
  \E e \in Controllers :
    /\ destroyCalls[e] > 0
    /\ unheard[e] > 0
    /\ history[e] = <<>>
    /\ CreatedBy(e) = {}
    /\ tooltipComponent[e] = NoInstance

(* C6: a second destroy() changes nothing: the handle stays null, the      *)
(* listeners stay removed, and no instance is destroyed a second time.     *)
C6_DetachIdempotent ==
  [][\A e \in Controllers :
       (DestroyStep(e) /\ destroyCalls[e] > 0) =>
          /\ tooltipComponent'[e] = NoInstance
          /\ listeners'[e] = {}
          /\ UNCHANGED progVars
          /\ \A i \in DOMAIN instances' : instances'[i].destroyed <= 1]_vars

C6_Witness ==
  \E e \in Controllers :
    /\ destroyCalls[e] = 2
    /\ history[e] = <<"enter">>
    /\ \E i \in CreatedBy(e) : instances[i].destroyed = 1

(* C7: update() while an instance is live sets that instance's label to    *)
(* the new label; the handle is the same and nothing is constructed or     *)
(* destroyed.                                                              *)
C7_UpdatePatchesLabel ==
  [][\A e \in Controllers :
       (UpdateStep(e) /\ tooltipComponent[e] # NoInstance) =>
          /\ tooltipComponent'[e] = tooltipComponent[e]
          /\ Len(instances') = Len(instances)
          /\ instances'[tooltipComponent[e]].alive
          /\ instances'[tooltipComponent[e]].destroyed = 0
          /\ instances'[tooltipComponent[e]].tooltipText = curTooltipText'[e]
          /\ \A i \in DOMAIN instances :
               i # tooltipComponent[e] => instances'[i] = instances[i]]_vars

C7_Witness ==
  \E e \in Controllers :
    /\ tooltipComponent[e] # NoInstance
    /\ instances[tooltipComponent[e]].mountText = "A"
    /\ instances[tooltipComponent[e]].tooltipText = "B"
    /\ history[e] = <<"enter">>

(* C8: a live instance keeps the body component and body props it was      *)
(* mounted with until it is destroyed; update() changes nothing of it but  *)
(* the label.                                                              *)
C8_BodyNotPatched ==
  [][/\ \A e \in Controllers :
          (UpdateStep(e) /\ tooltipComponent[e] # NoInstance) =>
             instances' = [instances EXCEPT ![tooltipComponent[e]].tooltipText =
                             instances'[tooltipComponent[e]].tooltipText]
     /\ \A i \in DOMAIN instances :
          (instances[i].alive /\ instances'[i].alive) =>
             /\ instances'[i].tooltipBodyComponent = instances[i].tooltipBodyComponent
             /\ instances'[i].tooltipBodyProps = instances[i].tooltipBodyProps]_vars

C8_Witness ==
  \E e \in Controllers :
    /\ tooltipComponent[e] # NoInstance
    /\ instances[tooltipComponent[e]].tooltipBodyComponent = "R1"
    /\ instances[tooltipComponent[e]].tooltipBodyProps = "x1"
    /\ curTooltipBodyComponent[e] = "R2"
    /\ updateCalls[e] > 0

(* C9: an enter event that mounts an instance passes the anchor            *)
(* (left + width/2, top + height) of the element's bounding rectangle:     *)
(* (120, 70) for {100, 50, 40, 20}, and (0, 0) for the zero rectangle,     *)
(* which mounts as well.                                                   *)
C9_AnchorGeometry ==
  [][\A e \in Controllers :
       (EnterStep(e) /\ tooltipComponent[e] = NoInstance) =>
          LET rect == boundingRect[e]
              inst == instances'[Len(instances')]
          IN /\ Len(instances') = Len(instances) + 1
             /\ tooltipComponent'[e] = Len(instances')
             /\ inst.alive
             /\ 2 * inst.x = 2 * rect.left + rect.width
             /\ inst.y = rect.top + rect.height
             /\ rect = ExampleRect => (inst.x = Px(120) /\ inst.y = Px(70))
             /\ rect = ZeroRect => (inst.x = 0 /\ inst.y = 0)]_vars

C9_Witness ==
  \E e \in Controllers :
    /\ tooltipComponent[e] # NoInstance
    /\ instances[tooltipComponent[e]].mountRect = ExampleRect
    /\ instances[tooltipComponent[e]].x = Px(120)
    /\ instances[tooltipComponent[e]].y = Px(70)

(* C10: hoverTooltip() registers both handlers and mounts nothing; no      *)
(* instance exists before the first enter event has been processed.        *)
C10_LazyAttach ==
  \A e \in Controllers :
    ~HasEnter(history[e]) =>
       /\ CreatedBy(e) = {}
       /\ tooltipComponent[e] = NoInstance
       /\ (destroyCalls[e] = 0 => listeners[e] = {MouseOverListener, MouseLeaveListener})

C10_Witness ==
  \E e \in Controllers :
    /\ history[e] = <<"leave">>
    /\ updateCalls[e] > 0
    /\ destroyCalls[e] = 0
    /\ CreatedBy(e) = {}

\* the step is an operation on controller e
OperationStep(e) ==
  \/ EnterStep(e)
  \/ LeaveStep(e)
  \/ UpdateStep(e)
  \/ DestroyStep(e)
  \/ unheard'[e] = unheard[e] + 1

(* C11: two controllers on two elements are independent: an enter, leave,  *)
(* update or detach on one leaves the other's stored content, handle, live *)
(* instance and listeners as they were, in every interleaving.             *)
C11_ControllersIndependent ==
  [][\A e \in Controllers : \A f \in Controllers \ {e} :
       OperationStep(e) =>
          /\ curTooltipText'[f] = curTooltipText[f]
          /\ curTooltipBodyComponent'[f] = curTooltipBodyComponent[f]
          /\ curTooltipBodyProps'[f] = curTooltipBodyProps[f]
          /\ tooltipComponent'[f] = tooltipComponent[f]
          /\ listeners'[f] = listeners[f]
          /\ \A i \in DOMAIN instances :
               instances[i].creator = f => instances'[i] = instances[i]]_vars

C11_Witness ==
  /\ Controllers = {"e1", "e2"}
  /\ destroyCalls["e1"] = 1
  /\ history["e1"] = <<"enter">>
  /\ updateCalls["e1"] = 1
  /\ curTooltipText["e1"] = "B"
  /\ tooltipComponent["e2"] # NoInstance
  /\ instances[tooltipComponent["e2"]].tooltipText = "A"
  /\ curTooltipText["e2"] = "A"
  /\ listeners["e2"] = {MouseOverListener, MouseLeaveListener}

(* C12 as stated: body component and body props are fixed by               *)
(* hoverTooltip(): with R1 and x1 passed at attach, every mounted instance *)
(* uses R1 and x1, whatever update() was called with.                      *)
C12_BodyFixedAtAttach ==
  \A e \in Controllers : \A i \in Live(e) :
    /\ instances[i].tooltipBodyComponent = "R1"
    /\ instances[i].tooltipBodyProps = "x1"

(* C12 as amended: body component and body props are captured at mount:    *)
(* an enter that mounts passes those of the latest hoverTooltip() or       *)
(* update() call, and update() on a mounted instance changes its label     *)
(* only, to the new label.                                                 *)
C12_BodyCapturedAtMount ==
  [][\A e \in Controllers :
       /\ (EnterStep(e) /\ tooltipComponent[e] = NoInstance) =>
             /\ tooltipComponent'[e] = Len(instances) + 1
             /\ instances'[tooltipComponent'[e]].tooltipBodyComponent
                  = lastOptions[e].tooltipBodyComponent
             /\ instances'[tooltipComponent'[e]].tooltipBodyProps
                  = lastOptions[e].tooltipBodyProps
       /\ (UpdateStep(e) /\ tooltipComponent[e] # NoInstance) =>
             /\ tooltipComponent'[e] = tooltipComponent[e]
             /\ instances'[tooltipComponent[e]].tooltipBodyComponent
                  = instances[tooltipComponent[e]].tooltipBodyComponent
             /\ instances'[tooltipComponent[e]].tooltipBodyProps
                  = instances[tooltipComponent[e]].tooltipBodyProps
             /\ instances'[tooltipComponent[e]].tooltipText = lastOptions'[e].tooltipText]_vars

C12_Witness ==
  \E e \in Controllers :
    /\ updateCalls[e] > 0
    /\ tooltipComponent[e] # NoInstance
    /\ instances[tooltipComponent[e]].tooltipBodyComponent = "R2"
    /\ lastOptions[e].tooltipBodyComponent = "R2"

(* C13: update() while nothing is mounted stores the new options and       *)
(* mounts and destroys nothing; the next enter mounts an instance with the *)
(* label of the latest update.                                             *)
C13_UpdateWhileHidden ==
  [][\A e \in Controllers :
       /\ (UpdateStep(e) /\ tooltipComponent[e] = NoInstance) =>
             /\ tooltipComponent'[e] = NoInstance
             /\ instances' = instances
             /\ listeners' = listeners
             /\ curTooltipText'[e] = lastOptions'[e].tooltipText
             /\ curTooltipBodyComponent'[e] = lastOptions'[e].tooltipBodyComponent
             /\ curTooltipBodyProps'[e] = lastOptions'[e].tooltipBodyProps
       /\ (EnterStep(e) /\ tooltipComponent[e] = NoInstance) =>
             /\ tooltipComponent'[e] # NoInstance
             /\ instances'[tooltipComponent'[e]].alive
             /\ instances'[tooltipComponent'[e]].tooltipText = lastOptions[e].tooltipText]_vars

\* under SpecR1 hoverTooltip() never receives the text "B"
C13_Witness ==
  \E e \in Controllers :
    /\ history[e] = <<"enter">>
    /\ updateCalls[e] > 0
    /\ tooltipComponent[e] # NoInstance
    /\ instances[tooltipComponent[e]].mountText = "B"

(* C14: a leave event processed while nothing is mounted destroys and      *)
(* constructs nothing and leaves stored options and listeners alone.       *)
C14_LeaveWhileHiddenIsNoOp ==
  [][\A e \in Controllers :
       (LeaveStep(e) /\ tooltipComponent[e] = NoInstance) => UNCHANGED progVars]_vars

C14_Witness ==
  \E e \in Controllers :
    /\ history[e] = <<"enter", "leave", "leave">>
    /\ \E i \in CreatedBy(e) : instances[i].destroyed = 1
    /\ tooltipComponent[e] = NoInstance

\* calls of $destroy() on the instances of e
RECURSIVE DestroyCallsUpTo(_, _)
DestroyCallsUpTo(e, n) ==
  IF n = 0 THEN 0
  ELSE DestroyCallsUpTo(e, n - 1)
         + (IF instances[n].creator = e THEN instances[n].destroyed ELSE 0)

CreatedMinusDestroyed(e) ==
  Cardinality(CreatedBy(e)) - DestroyCallsUpTo(e, Len(instances))

Balanced(e) ==
  /\ CreatedMinusDestroyed(e) = (IF tooltipComponent[e] # NoInstance THEN 1 ELSE 0)
  /\ \A i \in CreatedBy(e) : instances[i].destroyed <= 1
  /\ tooltipComponent[e] # NoInstance => Live(e) = {tooltipComponent[e]}

(* C15: creations and destructions of one controller alternate, starting   *)
(* with a creation: created minus destroyed is 1 when the handle is set    *)
(* and 0 otherwise, nothing is destroyed twice, and an instance is         *)
(* constructed only when the previous one has been destroyed.              *)
C15_CreateDestroyAlternate ==
  [][\A e \in Controllers :
       /\ Balanced(e)
       /\ Balanced(e)'
       /\ Cardinality(CreatedBy(e)') > Cardinality(CreatedBy(e)) =>
             /\ Live(e) = {}
             /\ Cardinality(CreatedBy(e)') = Cardinality(CreatedBy(e)) + 1]_vars

C15_Witness ==
  \E e \in Controllers :
    /\ Cardinality(CreatedBy(e)) = 2
    /\ Cardinality(Dead(e)) = 1
    /\ tooltipComponent[e] # NoInstance

(* C16: a mounted instance shows the stored text: its label equals         *)
(* curTooltipText, also after an update() without a text, which sets the   *)
(* label to undefined.                                                     *)
C16_LiveLabelIsCurrentText ==
  \A e \in Controllers :
    tooltipComponent[e] # NoInstance =>
      /\ instances[tooltipComponent[e]].alive
      /\ instances[tooltipComponent[e]].tooltipText = curTooltipText[e]
      /\ instances[tooltipComponent[e]].tooltipText = lastOptions[e].tooltipText

C16_Witness ==
  \E e \in Controllers :
    /\ tooltipComponent[e] # NoInstance
    /\ instances[tooltipComponent[e]].mountText = "A"
    /\ instances[tooltipComponent[e]].tooltipText = Undefined
    /\ curTooltipText[e] = Undefined

====
